---- MODULE Spec2Model ----
(***************************************************************************)
(* A model of fetch_a_stock_data.py: the run of main() (listing fetch,     *)
(* index fetch loop, equity fetch loop, analyze_data, the two exports),    *)
(* the two fetch loops called on their own, and the leaderboard/count      *)
(* part of analyze_data applied to a statistics table.                     *)
(*                                                                         *)
(* Data frames are sequences of rows.  Column names are transliterated:    *)
(*   代码/股票代码 -> code, 总市值 -> cap, 收盘 -> close, 最高 -> high,    *)
(*   最低 -> low, 涨跌幅 -> change_pct, 波动率 -> volatility.              *)
(* The pass-through display columns (名称/股票名称, 成交量, 成交额) and    *)
(* the report lines computed from them or from mean()/median() are not     *)
(* read by any property below and are left out of the rows.                *)
(***************************************************************************)
EXTENDS Integers, Sequences, FiniteSets, TLC

\* ------------------------------------------------------------------ bounds
\* Longest listing main() receives from get_stock_list.
MaxRunListing == 1
\* Longest listing handed to get_sample_stocks when it is called on its own.
MaxListing == 3
\* Largest n handed to get_sample_stocks when it is called on its own.
MaxN == 3
\* Longest listing of a batch that is fetched and then analysed.
MaxBatchListing == 2
\* Tables of at most this many rows, and of more than TopN rows, are ranked.
MaxSmallTable == 3
\* Largest statistics table that is ranked.
MaxTable == 11

\* ------------------------------------------------------- program constants
\* nlargest(10, ...) / nsmallest(10, ...)
TopN == 10
\* main: get_sample_stocks(stock_list, n=100)
SampleSize == 100

\* The six fixed indices, in dict insertion order.
indices ==
    << [name |-> "SSE Composite", code |-> "000001"],
       [name |-> "SZSE Component", code |-> "399001"],
       [name |-> "ChiNext", code |-> "399006"],
       [name |-> "STAR 50", code |-> "000688"],
       [name |-> "CSI 300", code |-> "000300"],
       [name |-> "SSE 50", code |-> "000016"] >>

\* ----------------------------------------------------- float64 arithmetic
\* A float64 result is [num, den]: num/den for den > 0 (in lowest terms),
\* +inf = 1/0, -inf = -1/0, NaN = 0/0.  The model's prices are the integers
\* 0, 1 and 2, for which distinct quotients are distinct floats and equal
\* quotients are the same float.
RECURSIVE GCD(_, _)
GCD(a, b) == IF b = 0 THEN a ELSE GCD(b, a % b)

Abs(x) == IF x < 0 THEN -x ELSE x

Sign(x) == IF x > 0 THEN 1 ELSE IF x < 0 THEN -1 ELSE 0

\* numpy float64 a / b * 100 for an integer a and an integer b >= 0:
\* x/0 is +-inf, 0/0 is NaN (a RuntimeWarning, no exception).
PctOf(a, b) ==
    IF b = 0 THEN [num |-> Sign(a), den |-> 0]
    ELSE LET g == GCD(Abs(a) * 100, b)
         IN  [num |-> (a * 100) \div g, den |-> b \div g]

Zero == [num |-> 0, den |-> 1]
NaN == [num |-> 0, den |-> 0]

IsNaN(x) == x.den = 0 /\ x.num = 0
IsFinite(x) == x.den > 0

\* IEEE comparisons: every comparison with NaN is false.
FLt(x, y) ==
    /\ ~IsNaN(x)
    /\ ~IsNaN(y)
    /\ IF x.den = 0 /\ y.den = 0 THEN x.num < y.num
       ELSE IF x.den = 0 THEN x.num < 0
       ELSE IF y.den = 0 THEN y.num > 0
       ELSE x.num * y.den < y.num * x.den
FEq(x, y) == ~IsNaN(x) /\ ~IsNaN(y) /\ x = y
FLe(x, y) == FLt(x, y) \/ FEq(x, y)
FGe(x, y) == FLe(y, x)
FGt(x, y) == FLt(y, x)

\* ------------------------------------------------------------ input data
Codes == {"000001", "000002"}
MarketCaps == {100, 500, 900}

Bar(c, h, l) == [close |-> c, high |-> h, low |-> l]

\* A data frame, or None.
Df(rows) == [none |-> FALSE, rows |-> rows]
NoneDf == [none |-> TRUE, rows |-> <<>>]

\* What ak.stock_zh_a_hist / ak.index_zh_a_hist can answer: an exception, or a
\* daily series (zero rows; a zero first close; rising; falling; flat).
Raised == [ok |-> FALSE, rows |-> <<>>]
Returned(rows) == [ok |-> TRUE, rows |-> rows]

StockSeries ==
    { <<>>,
      << Bar(0, 0, 0) >>,
      << Bar(1, 1, 1), Bar(2, 2, 1) >>,
      << Bar(2, 2, 2) >> }

IndexSeries ==
    { <<>>,
      << Bar(0, 1, 0), Bar(1, 1, 1) >>,
      << Bar(2, 2, 1), Bar(1, 2, 1) >> }

StockOutcomes == {Raised} \cup {Returned(s) : s \in StockSeries}
IndexOutcomes == {Raised} \cup {Returned(s) : s \in IndexSeries}

\* The answers drawn in the fetch loops called on their own: an exception,
\* zero rows, a series.
LoopStockOutcomes ==
    { Raised, Returned(<<>>), Returned(<< Bar(1, 1, 1), Bar(2, 2, 1) >>) }

\* The answers drawn in the run of main().
RunStockOutcomes == LoopStockOutcomes \cup { Returned(<< Bar(0, 0, 0) >>) }
RunIndexOutcomes ==
    { Raised, Returned(<<>>), Returned(<< Bar(2, 2, 1), Bar(1, 2, 1) >>) }

\* Listings of at most k rows; the frame's index labels are 1..Len.
SeqsUpTo(S, k) == UNION {[1..m -> S] : m \in 0..k}
Listings(caps, k) ==
    { [i \in 1..Len(l) |-> [idx |-> i, code |-> l[i].code, cap |-> l[i].cap]] :
        l \in SeqsUpTo([code : Codes, cap : caps], k) }

VARIABLES
    pc,           \* where the run is
    stock_list,   \* the listing frame (get_stock_list's result)
    n,            \* get_sample_stocks's n
    index_data,   \* get_index_data's dict, in insertion order: <<[name, rows]>>
    idx_i,        \* index loop: how many of the six have been processed
    top_stocks,   \* get_sample_stocks: the sorted, truncated listing
    stk_i,        \* equity loop: how many rows of top_stocks were processed
    all_data,     \* get_sample_stocks: the frames collected so far
    stock_data,   \* get_sample_stocks's result: a frame or None
    returns_df,   \* analyze_data: the per-stock statistics table
    top_gainers,  \* analyze_data: returns_df.nlargest(10, change_pct)
    top_losers,   \* analyze_data: returns_df.nsmallest(10, change_pct)
    counts,       \* analyze_data: the numbers of rising, falling, flat rows
    report,       \* analyze_data's report
    attempted,    \* the fetch calls made, in order: <<[kind, code]>>
    failures,     \* the failure lines printed, in order: <<[kind, code]>>
    files,        \* the files on disk, in order of creation: name, complete
    events,       \* main's completed steps, in order
    abort_cause   \* which call's exception left main, or "none"

vars == << pc, stock_list, n, index_data, idx_i, top_stocks, stk_i, all_data,
           stock_data, returns_df, top_gainers, top_losers, counts, report,
           attempted, failures, files, events, abort_cause >>


\* --------------------------------------------------------------- helpers
Min(a, b) == IF a < b THEN a ELSE b

MaxOf(S) == CHOOSE x \in S : \A y \in S : y <= x
MinOf(S) == CHOOSE x \in S : \A y \in S : x <= y

RECURSIVE SumCaps(_)
SumCaps(frame) ==
    IF frame = <<>> THEN 0 ELSE Head(frame).cap + SumCaps(Tail(frame))

RECURSIVE Concat(_)
\* pd.concat(frames, ignore_index=True)
Concat(frames) ==
    IF frames = <<>> THEN <<>> ELSE Head(frames) \o Concat(Tail(frames))

\* frame.head(k), k >= 0
HeadN(frame, k) == SubSeq(frame, 1, Min(k, Len(frame)))

\* Whether the sort in the given order must put row a ahead of row b:
\* by market cap descending (ascending), by change_pct descending (the
\* gainers), by change_pct ascending (the losers).
Before(order, a, b) ==
    CASE order = "cap_descending" -> a.cap > b.cap
      [] order = "cap_ascending" -> a.cap < b.cap
      [] order = "gainers" -> FGt(a.change_pct, b.change_pct)
      [] order = "losers" -> FLt(a.change_pct, b.change_pct)

\* The orders an unstable sort can leave seq in: every arrangement in which no
\* row stands before one that Before puts ahead of it.  Rows that Before does
\* not separate may come out in any order (numpy's default quicksort).
SortedOrders(seq, order) ==
    { [i \in 1..Len(seq) |-> seq[p[i]]] :
        p \in { q \in Permutations(1..Len(seq)) :
                  \A i, j \in 1..Len(seq) :
                      i < j => ~Before(order, seq[q[j]], seq[q[i]]) } }

\* The order a stable sort (kind="mergesort") leaves seq in.
StableSort(seq, order) ==
    LET Ahead(j, i) == \/ Before(order, seq[j], seq[i])
                       \/ (~Before(order, seq[i], seq[j]) /\ j < i)
        Rank(i) == 1 + Cardinality({j \in 1..Len(seq) : Ahead(j, i)})
    IN  [r \in 1..Len(seq) |-> seq[CHOOSE i \in 1..Len(seq) : Rank(i) = r]]

\* ------------------------------------------------------------- main's steps
\* Where main goes after a call: an exception that leaves the call leaves main.
MainAfterSwallowingExportError(step, ok) ==
    CASE step = "get_stock_list" -> IF ok THEN "get_index_data" ELSE "aborted"
      [] step = "get_index_data" -> "get_sample_stocks"
      [] step = "get_sample_stocks" -> "analyze_data"
      [] step = "analyze_data" -> IF ok THEN "save_to_excel" ELSE "aborted"
      [] step = "save_to_excel" -> "write_report"
      [] step = "write_report" -> IF ok THEN "done" ELSE "aborted"

MainAfter(step, ok) ==
    IF ~ok THEN "aborted"
    ELSE CASE step = "get_stock_list" -> "get_index_data"
           [] step = "get_index_data" -> "get_sample_stocks"
           [] step = "get_sample_stocks" -> "analyze_data"
           [] step = "analyze_data" -> "save_to_excel"
           [] step = "save_to_excel" -> "write_report"
           [] step = "write_report" -> "done"

\* ---------------------------------------------------------- get_stock_list
GetStockList(listings) ==
    /\ pc = "start"
    /\ \E l \in listings :
          /\ stock_list' = l
          /\ pc' = MainAfter("get_stock_list", TRUE)
          /\ events' = Append(events, "get_stock_list")
    /\ UNCHANGED << n, index_data, idx_i, top_stocks, stk_i, all_data,
                    stock_data, returns_df, top_gainers, top_losers, counts,
                    report, attempted, failures, files, abort_cause >>

GetStockListRaises ==
    /\ pc = "start"
    /\ pc' = MainAfter("get_stock_list", FALSE)
    /\ abort_cause' = "get_stock_list"
    /\ UNCHANGED << stock_list, n, index_data, idx_i, top_stocks, stk_i,
                    all_data, stock_data, returns_df, top_gainers, top_losers,
                    counts, report, attempted, failures, files, events >>

\* ---------------------------------------------------------- get_index_data
\* The loop position after the fetch of item i answered r: the except clause
\* prints and the for loop goes on.
IndexLoopAfter(i, r) == i + 1

GetIndexDataStep(outcomes) ==
    /\ pc = "get_index_data"
    /\ idx_i < Len(indices)
    /\ \E r \in outcomes :
          LET ix == indices[idx_i + 1]
          IN  /\ attempted' = Append(attempted, [kind |-> "index", code |-> ix.code])
              /\ IF r.ok
                 THEN /\ index_data' = Append(index_data, [name |-> ix.name, rows |-> r.rows])
                      /\ UNCHANGED failures
                 ELSE /\ failures' = Append(failures, [kind |-> "index", code |-> ix.code])
                      /\ UNCHANGED index_data
              /\ idx_i' = IndexLoopAfter(idx_i, r)
    /\ UNCHANGED << pc, stock_list, n, top_stocks, stk_i, all_data, stock_data,
                    returns_df, top_gainers, top_losers, counts, report, files,
                    events, abort_cause >>

GetIndexDataReturn(next) ==
    /\ pc = "get_index_data"
    /\ idx_i = Len(indices)
    /\ pc' = next
    /\ events' = Append(events, "get_index_data")
    /\ UNCHANGED << stock_list, n, index_data, idx_i, top_stocks, stk_i,
                    all_data, stock_data, returns_df, top_gainers, top_losers,
                    counts, report, attempted, failures, files, abort_cause >>

\* ------------------------------------------- get_sample_stocks / get_stock_history
\* stock_list.sort_values(cap, ascending=False)
SortValuesAscending(frame) == SortedOrders(frame, "cap_ascending")
SortValues(frame) == SortedOrders(frame, "cap_descending")

\* get_stock_history: the fetched frame with its code column set.
WithCode(rows, symbol) ==
    [i \in 1..Len(rows) |->
        [code |-> symbol, close |-> rows[i].close, high |-> rows[i].high,
         low |-> rows[i].low]]

StockLoopBreakOnFailure(i, r) == IF r.ok THEN i + 1 ELSE Len(top_stocks)
StockLoopAfter(i, r) == i + 1

GetSampleStocksBegin ==
    /\ pc = "get_sample_stocks"
    /\ \E sorted \in SortValues(stock_list) :
          top_stocks' = HeadN(sorted, n)
    /\ stk_i' = 0
    /\ all_data' = <<>>
    /\ pc' = "fetch_stocks"
    /\ UNCHANGED << stock_list, n, index_data, idx_i, stock_data, returns_df,
                    top_gainers, top_losers, counts, report, attempted,
                    failures, files, events, abort_cause >>

GetStockHistoryStep(outcomes) ==
    /\ pc = "fetch_stocks"
    /\ stk_i < Len(top_stocks)
    /\ \E r \in outcomes :
          LET symbol == top_stocks[stk_i + 1].code
          IN  /\ attempted' = Append(attempted, [kind |-> "stock", code |-> symbol])
              /\ IF r.ok
                 THEN /\ all_data' = Append(all_data, WithCode(r.rows, symbol))
                      /\ UNCHANGED failures
                 ELSE /\ failures' = Append(failures, [kind |-> "stock", code |-> symbol])
                      /\ UNCHANGED all_data
              /\ stk_i' = StockLoopAfter(stk_i, r)
    /\ UNCHANGED << pc, stock_list, n, index_data, idx_i, top_stocks,
                    stock_data, returns_df, top_gainers, top_losers, counts,
                    report, files, events, abort_cause >>

GetSampleStocksReturn(next) ==
    /\ pc = "fetch_stocks"
    /\ stk_i = Len(top_stocks)
    /\ stock_data' = IF all_data # <<>> THEN Df(Concat(all_data)) ELSE NoneDf
    /\ pc' = next
    /\ events' = Append(events, "get_sample_stocks")
    /\ UNCHANGED << stock_list, n, index_data, idx_i, top_stocks, stk_i,
                    all_data, returns_df, top_gainers, top_losers, counts,
                    report, attempted, failures, files, abort_cause >>

\* ------------------------------------------------------------ analyze_data
\* stock_data[code].unique(): the codes in order of first appearance.
RECURSIVE Unique(_, _)
Unique(rows, seen) ==
    IF rows = <<>> THEN <<>>
    ELSE IF Head(rows).code \in seen THEN Unique(Tail(rows), seen)
    ELSE << Head(rows).code >> \o Unique(Tail(rows), seen \cup {Head(rows).code})

\* The report's analysed-stock count.
AnalysedCount(data) == IF data.none THEN 0 ELSE Len(Unique(data.rows, {}))

\* stock_data[stock_data[code] == symbol]
RowsOf(rows, symbol) == SelectSeq(rows, LAMBDA r : r.code = symbol)

\* The statistics of one non-empty series (of a stock, or of an index).
SeriesStats(df) ==
    LET start_price == df[1].close
        end_price == df[Len(df)].close
        max_price == MaxOf({df[i].high : i \in 1..Len(df)})
        min_price == MinOf({df[i].low : i \in 1..Len(df)})
    IN  [start_price |-> start_price,
         end_price |-> end_price,
         change_pct |-> PctOf(end_price - start_price, start_price),
         max_price |-> max_price,
         min_price |-> min_price,
         volatility |-> PctOf(max_price - min_price, start_price)]

\* One row of stock_returns.
StockReturn(symbol, stock_df) ==
    [code |-> symbol,
     change_pct |-> SeriesStats(stock_df).change_pct,
     volatility |-> SeriesStats(stock_df).volatility]

\* pd.DataFrame(stock_returns): one row per unique code, over all of that
\* code's rows in stock_data.
ReturnsDf(rows) ==
    LET u == Unique(rows, {})
    IN  [i \in 1..Len(u) |-> StockReturn(u[i], RowsOf(rows, u[i]))]

\* The guards of the two sections.
IndexGuardMissingLen(entry) == TRUE
IndexGuard(entry) == Len(entry.rows) > 0

EquityGuard(data) == ~data.none /\ Len(data.rows) > 0

\* The index section: one entry per index whose frame passes the guard.
IndexSection(data) ==
    LET kept == SelectSeq(data, IndexGuard)
    IN  [i \in 1..Len(kept) |->
            [name |-> kept[i].name, stats |-> SeriesStats(kept[i].rows)]]

\* What raises inside analyze_data: .iloc[0] on a frame of zero rows
\* (IndexError), and nlargest on the column-less frame that
\* pd.DataFrame([]) is (KeyError).
AnalyzeRaises(idata, sdata) ==
    \/ \E i \in 1..Len(idata) : IndexGuard(idata[i]) /\ Len(idata[i].rows) = 0
    \/ EquityGuard(sdata) /\ ReturnsDf(sdata.rows) = <<>>

\* Series.nlargest / nsmallest(k, keep="first") on the change_pct column, as
\* DataFrame.nlargest(k, column) applies it, in the order asked for.
\*   k >= len:  sort_values(...).head(k): the default unstable sort of the
\*              rows that are not NaN, then the NaN rows in frame order.
\*   k <  len:  the rows not above the k-th value, in a stable sort, cut to
\*              k, then the NaN rows in frame order, cut to k.
SelectN(k, df, order) ==
    LET dropped == SelectSeq(df, LAMBDA r : ~IsNaN(r.change_pct))
        nan_rows == SelectSeq(df, LAMBDA r : IsNaN(r.change_pct))
    IN  IF k <= 0 THEN { <<>> }
        ELSE IF k >= Len(df)
        THEN { HeadN(s \o nan_rows, k) : s \in SortedOrders(dropped, order) }
        ELSE LET m == Min(k, Len(dropped))
                 sorted == StableSort(dropped, order)
                 ns == SelectSeq(dropped,
                           LAMBDA r : m > 0 /\ ~Before(order, sorted[m], r))
                 inds == HeadN(StableSort(ns, order), m)
             IN  { HeadN(inds \o nan_rows, k) }

NLargest(k, df) == SelectN(k, df, "gainers")
NSmallest(k, df) == SelectN(k, df, "losers")

\* (change_pct > 0).sum(), (change_pct < 0).sum(), (change_pct == 0).sum()
Counts(df) ==
    [up |-> Cardinality({i \in 1..Len(df) : FGt(df[i].change_pct, Zero)}),
     down |-> Cardinality({i \in 1..Len(df) : FLt(df[i].change_pct, Zero)}),
     flat |-> Cardinality({i \in 1..Len(df) : FEq(df[i].change_pct, Zero)})]

NoCounts == [up |-> 0, down |-> 0, flat |-> 0]

NoReport ==
    [built |-> FALSE, count |-> 0, index_section |-> <<>>, equity |-> FALSE,
     gainers |-> <<>>, losers |-> <<>>, counts |-> NoCounts, market |-> FALSE,
     total_cap |-> 0, listed |-> 0]

\* The report text, by section.  total_cap is the sum before its scaling to
\* units of 1e8.
Report(idata, sdata, listing, gainers, losers) ==
    [built |-> TRUE,
     count |-> AnalysedCount(sdata),
     index_section |-> IndexSection(idata),
     equity |-> EquityGuard(sdata),
     gainers |-> IF EquityGuard(sdata) THEN gainers ELSE <<>>,
     losers |-> IF EquityGuard(sdata) THEN losers ELSE <<>>,
     counts |-> IF EquityGuard(sdata) THEN Counts(ReturnsDf(sdata.rows)) ELSE NoCounts,
     market |-> TRUE,
     total_cap |-> SumCaps(listing),
     listed |-> Len(listing)]

Analyze(next, failed) ==
    /\ pc = "analyze_data"
    /\ IF AnalyzeRaises(index_data, stock_data)
       THEN /\ pc' = failed
            /\ abort_cause' = "analyze_data"
            /\ UNCHANGED << returns_df, top_gainers, top_losers, counts,
                            report, events >>
       ELSE LET df == IF EquityGuard(stock_data)
                      THEN ReturnsDf(stock_data.rows) ELSE <<>>
            IN  /\ returns_df' = df
                /\ \E g \in NLargest(TopN, df), l \in NSmallest(TopN, df) :
                      /\ top_gainers' = g
                      /\ top_losers' = l
                      /\ report' = Report(index_data, stock_data, stock_list, g, l)
                /\ counts' = Counts(df)
                /\ pc' = next
                /\ events' = Append(events, "analyze_data")
                /\ UNCHANGED abort_cause
    /\ UNCHANGED << stock_list, n, index_data, idx_i, top_stocks, stk_i,
                    all_data, stock_data, attempted, failures, files >>

\* The leaderboards and counts of analyze_data, on a statistics table.
RankTable ==
    /\ pc = "rank"
    /\ \E g \in NLargest(TopN, returns_df), l \in NSmallest(TopN, returns_df) :
          /\ top_gainers' = g
          /\ top_losers' = l
    /\ counts' = Counts(returns_df)
    /\ pc' = "ranked"
    /\ UNCHANGED << stock_list, n, index_data, idx_i, top_stocks, stk_i,
                    all_data, stock_data, returns_df, report, attempted,
                    failures, files, events, abort_cause >>

\* ------------------------------------------------- save_to_excel, the report file
\* A file of the output directory: complete when everything meant for it was
\* written and it was closed, incomplete (empty or partial) when it was
\* created or truncated and the write then raised.
File(name, complete) == [name |-> name, complete |-> complete]

SaveToExcel ==
    /\ pc = "save_to_excel"
    /\ files' = Append(files, File("xlsx", TRUE))
    /\ events' = Append(events, "save_to_excel")
    /\ pc' = MainAfter("save_to_excel", TRUE)
    /\ UNCHANGED << stock_list, n, index_data, idx_i, top_stocks, stk_i,
                    all_data, stock_data, returns_df, top_gainers, top_losers,
                    counts, report, attempted, failures, abort_cause >>

\* pd.ExcelWriter(...) raises before it has opened the file: nothing on disk.
SaveToExcelOpenRaises ==
    /\ pc = "save_to_excel"
    /\ abort_cause' = "save_to_excel"
    /\ pc' = MainAfter("save_to_excel", FALSE)
    /\ UNCHANGED << stock_list, n, index_data, idx_i, top_stocks, stk_i,
                    all_data, stock_data, returns_df, top_gainers, top_losers,
                    counts, report, attempted, failures, files, events >>

\* A to_excel (or the save on leaving the with block) raises after the writer
\* has opened, hence created or truncated, the file: the exception leaves
\* save_to_excel and an incomplete spreadsheet is on disk.
SaveToExcelWriteRaises ==
    /\ pc = "save_to_excel"
    /\ files' = Append(files, File("xlsx", FALSE))
    /\ abort_cause' = "save_to_excel"
    /\ pc' = MainAfter("save_to_excel", FALSE)
    /\ UNCHANGED << stock_list, n, index_data, idx_i, top_stocks, stk_i,
                    all_data, stock_data, returns_df, top_gainers, top_losers,
                    counts, report, attempted, failures, events >>

\* main's last step: the report file, then the completion message.
WriteReport ==
    /\ pc = "write_report"
    /\ files' = Append(files, File("txt", TRUE))
    /\ events' = Append(events, "write_report")
    /\ pc' = MainAfter("write_report", TRUE)
    /\ UNCHANGED << stock_list, n, index_data, idx_i, top_stocks, stk_i,
                    all_data, stock_data, returns_df, top_gainers, top_losers,
                    counts, report, attempted, failures, abort_cause >>

\* open(report_path, 'w') raises: no report file.
WriteReportOpenRaises ==
    /\ pc = "write_report"
    /\ abort_cause' = "write_report"
    /\ pc' = MainAfter("write_report", FALSE)
    /\ UNCHANGED << stock_list, n, index_data, idx_i, top_stocks, stk_i,
                    all_data, stock_data, returns_df, top_gainers, top_losers,
                    counts, report, attempted, failures, files, events >>

\* f.write(report_text) raises: open() has already created or truncated the
\* report file, which stays on disk incomplete while the exception leaves main.
WriteReportWriteRaises ==
    /\ pc = "write_report"
    /\ files' = Append(files, File("txt", FALSE))
    /\ abort_cause' = "write_report"
    /\ pc' = MainAfter("write_report", FALSE)
    /\ UNCHANGED << stock_list, n, index_data, idx_i, top_stocks, stk_i,
                    all_data, stock_data, returns_df, top_gainers, top_losers,
                    counts, report, attempted, failures, events >>

\* ------------------------------------------------------------ specifications
Blank ==
    /\ index_data = <<>>
    /\ idx_i = 0
    /\ top_stocks = <<>>
    /\ stk_i = 0
    /\ all_data = <<>>
    /\ stock_data = NoneDf
    /\ top_gainers = <<>>
    /\ top_losers = <<>>
    /\ counts = NoCounts
    /\ report = NoReport
    /\ attempted = <<>>
    /\ failures = <<>>
    /\ files = <<>>
    /\ events = <<>>
    /\ abort_cause = "none"

\* The run of main().
Init ==
    /\ pc = "start"
    /\ n = SampleSize
    /\ stock_list = <<>>
    /\ returns_df = <<>>
    /\ Blank

Next ==
    \/ GetStockList(Listings({500}, MaxRunListing))
    \/ GetStockListRaises
    \/ GetIndexDataStep(RunIndexOutcomes)
    \/ GetIndexDataReturn(MainAfter("get_index_data", TRUE))
    \/ GetSampleStocksBegin
    \/ GetStockHistoryStep(RunStockOutcomes)
    \/ GetSampleStocksReturn(MainAfter("get_sample_stocks", TRUE))
    \/ Analyze(MainAfter("analyze_data", TRUE), MainAfter("analyze_data", FALSE))
    \/ SaveToExcel
    \/ SaveToExcelOpenRaises
    \/ SaveToExcelWriteRaises
    \/ WriteReport
    \/ WriteReportOpenRaises
    \/ WriteReportWriteRaises

Spec == Init /\ [][Next]_vars

\* get_index_data() and get_sample_stocks(stock_list, n), each called on its
\* own with its inputs drawn from the bounded sets, up to its return.
InitFetch ==
    /\ Blank
    /\ returns_df = <<>>
    /\ \/ /\ pc = "get_index_data"
          /\ n = 0
          /\ stock_list = <<>>
       \/ /\ pc = "get_sample_stocks"
          /\ n \in 0..MaxN
          /\ stock_list \in Listings(MarketCaps, MaxListing)

NextFetch ==
    \/ GetIndexDataStep(RunIndexOutcomes)
    \/ GetIndexDataReturn("returned")
    \/ GetSampleStocksBegin
    \/ GetStockHistoryStep(LoopStockOutcomes)
    \/ GetSampleStocksReturn("returned")

SpecFetch == InitFetch /\ [][NextFetch]_vars

\* A batch: get_index_data() or get_sample_stocks(stock_list, n) with the
\* fetches answering any of the series above, and analyze_data called on
\* what was returned.
InitBatch ==
    /\ Blank
    /\ returns_df = <<>>
    /\ \/ /\ pc = "get_index_data"
          /\ n = 0
          /\ stock_list = <<>>
       \/ /\ pc = "get_sample_stocks"
          /\ n \in 0..MaxBatchListing
          /\ stock_list \in Listings(MarketCaps, MaxBatchListing)

NextBatch ==
    \/ GetIndexDataStep(IndexOutcomes)
    \/ GetIndexDataReturn("analyze_data")
    \/ GetSampleStocksBegin
    \/ GetStockHistoryStep(StockOutcomes)
    \/ GetSampleStocksReturn("analyze_data")
    \/ Analyze("returned", "raised")

SpecBatch == InitBatch /\ [][NextBatch]_vars

\* The leaderboards and counts of analyze_data on statistics tables: every
\* table of at most MaxSmallTable rows over RankValues, and the tables of more
\* than TopN rows whose codes ascend or descend.
AllCodes ==
    << "000001", "000002", "000003", "000004", "000005", "000006", "000007",
       "000008", "000009", "000010", "000011", "000012", "000013" >>

CodeRank(c) == CHOOSE i \in 1..Len(AllCodes) : AllCodes[i] = c

Five == PctOf(1, 20)
RankValues == {NaN, Zero, Five, PctOf(-1, 2)}

TableRow(c, v) == [code |-> c, change_pct |-> v, volatility |-> Zero]

SmallTables(k) ==
    { [i \in 1..Len(t) |-> TableRow(AllCodes[t[i].c], t[i].v)] :
        t \in { u \in SeqsUpTo([c : 1..k, v : RankValues], k) :
                  \A i, j \in 1..Len(u) : i # j => u[i].c # u[j].c } }

BigTables(k) ==
    UNION { { [i \in 1..m |->
                TableRow(AllCodes[IF asc THEN i ELSE m + 1 - i],
                         IF i = m /\ last_nan THEN NaN
                         ELSE IF i \in S THEN Five ELSE Zero)] :
              S \in SUBSET (1..m), asc \in BOOLEAN, last_nan \in BOOLEAN } :
            m \in (TopN + 1)..k }

InitRank ==
    /\ pc = "rank"
    /\ n = 0
    /\ stock_list = <<>>
    /\ returns_df \in SmallTables(MaxSmallTable) \cup BigTables(MaxTable)
    /\ Blank

NextRank == RankTable

SpecRank == InitRank /\ [][NextRank]_vars

\* ================================================================ properties
StockAttempts == SelectSeq(attempted, LAMBDA a : a.kind = "stock")
IndexAttempts == SelectSeq(attempted, LAMBDA a : a.kind = "index")
StockFailures == SelectSeq(failures, LAMBDA a : a.kind = "stock")
IndexFailures == SelectSeq(failures, LAMBDA a : a.kind = "index")

IndexLoopReturned == \E i \in 1..Len(events) : events[i] = "get_index_data"
StockLoopReturned == \E i \in 1..Len(events) : events[i] = "get_sample_stocks"
Analysed == \E i \in 1..Len(events) : events[i] = "analyze_data"

\* The fetch calls made so far are the first idx_i indices and the first stk_i
\* selected rows, one call each and in list order, whatever the calls
\* answered; a loop that has returned has gone through its whole list.
FetchLoopsInv ==
    /\ IndexAttempts =
          [i \in 1..idx_i |-> [kind |-> "index", code |-> indices[i].code]]
    /\ StockAttempts =
          [i \in 1..stk_i |-> [kind |-> "stock", code |-> top_stocks[i].code]]
    /\ idx_i <= Len(indices)
    /\ stk_i <= Len(top_stocks)
    /\ IndexLoopReturned => idx_i = Len(indices)
    /\ StockLoopReturned => stk_i = Len(top_stocks)
    /\ Len(IndexFailures) + Len(index_data) = idx_i
    /\ Len(StockFailures) + Len(all_data) = stk_i

\* C1: in get_sample_stocks and in get_index_data a fetch is attempted for
\* every item of the list exactly once, in order, for every pattern of fetch
\* failures (a failure neither ends the loop nor skips a later item), and the
\* loop ends by returning to its caller: its position never passes the end of
\* the list, every step advances it, and until it has returned its next step
\* or its return can be taken.
C1_EveryItemFetchedOnce ==
    /\ FetchLoopsInv
    /\ pc \in {"get_index_data", "get_sample_stocks", "fetch_stocks"} =>
          ENABLED NextFetch
    /\ pc \notin {"get_index_data", "get_sample_stocks", "fetch_stocks"} =>
          (IndexLoopReturned \/ StockLoopReturned)

\* C1 witness: a three-symbol batch whose first fetch failed and whose later
\* fetches were made all the same, after which the loop returned.
C1_Witness ==
    /\ StockLoopReturned
    /\ Len(top_stocks) = 3
    /\ Len(StockAttempts) = 3
    /\ Len(StockFailures) >= 1
    /\ Len(all_data) >= 1
    /\ StockFailures[1].code = top_stocks[1].code
    /\ stock_data.none = FALSE

\* C2: after aggregation and statistics, the rows of the equity statistics
\* table plus the recorded failures account for every selected symbol, and
\* the report was produced.
C2_PartialFailureInvariant ==
    (pc = "returned" /\ StockLoopReturned /\ Analysed) =>
        /\ report.built
        /\ Len(returns_df) + Len(StockFailures) = Len(top_stocks)

ReportValues ==
    {returns_df[i].change_pct : i \in 1..Len(returns_df)}
    \cup {returns_df[i].volatility : i \in 1..Len(returns_df)}
    \cup {report.index_section[i].stats.change_pct : i \in 1..Len(report.index_section)}
    \cup {report.index_section[i].stats.volatility : i \in 1..Len(report.index_section)}

\* C3: a non-empty series whose first close is zero produces no statistics:
\* its symbol (or index) has no row in the table, the leaderboards or the
\* index section, it is among the failures, and no infinite or undefined
\* change_pct or volatility reaches the report.
C3_DegenerateBaselineFails ==
    (pc = "returned" /\ Analysed) =>
        /\ \A v \in ReportValues : IsFinite(v)
        /\ \A i \in 1..Len(all_data) :
              (all_data[i] # <<>> /\ all_data[i][1].close = 0) =>
                  /\ \A j \in 1..Len(returns_df) :
                        returns_df[j].code # all_data[i][1].code
                  /\ \E j \in 1..Len(StockFailures) :
                        StockFailures[j].code = all_data[i][1].code
        /\ \A i \in 1..Len(index_data) :
              (index_data[i].rows # <<>> /\ index_data[i].rows[1].close = 0) =>
                  \A j \in 1..Len(report.index_section) :
                      report.index_section[j].name # index_data[i].name

Ranked == pc = "ranked" \/ (pc = "returned" /\ Analysed /\ report.equity)

InTable(r) == \E i \in 1..Len(returns_df) : returns_df[i] = r
InBoard(board, r) == \E i \in 1..Len(board) : board[i] = r

\* C4: the gainers list is non-increasing and the losers list non-decreasing
\* in change_pct, both hold only rows of the table, no row left out of the
\* gainers list is above a row in it (no row left out of the losers list is
\* below a row in it), and both have exactly min(10, len(table)) rows.
C4_LeaderboardInvariant ==
    Ranked =>
        /\ Len(top_gainers) = Min(TopN, Len(returns_df))
        /\ Len(top_losers) = Min(TopN, Len(returns_df))
        /\ \A i \in 1..Len(top_gainers) : InTable(top_gainers[i])
        /\ \A i \in 1..Len(top_losers) : InTable(top_losers[i])
        /\ \A i, j \in 1..Len(top_gainers) :
              i < j => FGe(top_gainers[i].change_pct, top_gainers[j].change_pct)
        /\ \A i, j \in 1..Len(top_losers) :
              i < j => FLe(top_losers[i].change_pct, top_losers[j].change_pct)
        /\ \A i \in 1..Len(returns_df) : \A j \in 1..Len(top_gainers) :
              ~InBoard(top_gainers, returns_df[i]) =>
                  FLe(returns_df[i].change_pct, top_gainers[j].change_pct)
        /\ \A i \in 1..Len(returns_df) : \A j \in 1..Len(top_losers) :
              ~InBoard(top_losers, returns_df[i]) =>
                  FGe(returns_df[i].change_pct, top_losers[j].change_pct)

\* C5: the reported numbers of rising, falling and flat rows add up to the
\* number of rows of the equity statistics table.
C5_CountsAddUp ==
    Ranked => counts.up + counts.down + counts.flat = Len(returns_df)

TieBrokenByCode(board) ==
    /\ \A i, j \in 1..Len(board) :
          (i < j /\ FEq(board[i].change_pct, board[j].change_pct)) =>
              CodeRank(board[i].code) < CodeRank(board[j].code)
    /\ \A i \in 1..Len(returns_df) : \A j \in 1..Len(board) :
          (/\ ~InBoard(board, returns_df[i])
           /\ FEq(returns_df[i].change_pct, board[j].change_pct)) =>
              CodeRank(board[j].code) < CodeRank(returns_df[i].code)

\* C6: in both leaderboards rows of equal change_pct stand in ascending code
\* order whatever their order in the table, and of the rows tied across the
\* cutoff the ones with the smaller codes are kept (stated for the tables of
\* more than TopN rows, whose leaderboards do not depend on how the unstable
\* sort of the build at hand arranges equal rows).
C6_TiesByCodeAscending ==
    (Ranked /\ Len(returns_df) > TopN) =>
        TieBrokenByCode(top_gainers) /\ TieBrokenByCode(top_losers)

MainSteps ==
    << "get_stock_list", "get_index_data", "get_sample_stocks", "analyze_data",
       "save_to_excel", "write_report" >>

\* C7: main reaches its completion message only after the listing fetch, the
\* two fetch loops, the report and the two exports, in that order; a failed
\* listing fetch ends the run before any fetch, report or export; a failed
\* export ends the run, which then never completes and leaves no complete
\* file of that export (at most an incomplete one); nothing else ends it:
\* whatever the fetch loops delivered, analyze_data does not raise on it, and
\* a run that has neither completed nor been ended can take its next step.
C7_RunOrderAndFatalErrors ==
    /\ pc = "done" =>
          /\ events = MainSteps
          /\ files = << File("xlsx", TRUE), File("txt", TRUE) >>
          /\ report.built
          /\ abort_cause = "none"
    /\ events = SubSeq(MainSteps, 1, Len(events))
    /\ abort_cause = "get_stock_list" =>
          /\ attempted = <<>>
          /\ events = <<>>
          /\ ~report.built
          /\ files = <<>>
    /\ abort_cause = "save_to_excel" =>
          files \in { <<>>, << File("xlsx", FALSE) >> }
    /\ abort_cause = "write_report" =>
          files \in { << File("xlsx", TRUE) >>,
                      << File("xlsx", TRUE), File("txt", FALSE) >> }
    /\ abort_cause # "none" =>
          /\ pc = "aborted"
          /\ abort_cause \in {"get_stock_list", "save_to_excel", "write_report"}
          /\ ~ENABLED Next
    /\ pc = "aborted" => abort_cause # "none"
    /\ pc = "analyze_data" => ~AnalyzeRaises(index_data, stock_data)
    /\ pc \notin {"done", "aborted", "analyze_data"} => ENABLED Next

\* C7 witness: a completed run in which all six index fetches and the symbol
\* fetch failed.
C7_Witness ==
    /\ pc = "done"
    /\ Len(IndexFailures) = Len(indices)
    /\ Len(StockFailures) >= 1

EmptyEquity == stock_data.none \/ Len(stock_data.rows) = 0
EmptyIndexData == \A i \in 1..Len(index_data) : Len(index_data[i].rows) = 0

\* C8: with empty equity data (None, or frames of zero rows only) and/or
\* empty index data (no entry, or zero-row entries only) analyze_data
\* completes without raising, the report states 0 analysed stocks, has no
\* leaderboard entry, has no statistics of an index whose series is empty,
\* and has the market-totals section.
C8_EmptyInputsTolerated ==
    (StockLoopReturned /\ pc # "analyze_data" /\ (EmptyEquity \/ EmptyIndexData)) =>
        /\ abort_cause # "analyze_data"
        /\ Analysed
        /\ report.built
        /\ report.market
        /\ report.listed = Len(stock_list)
        /\ EmptyEquity =>
              /\ report.count = 0
              /\ ~report.equity
              /\ report.gainers = <<>>
              /\ report.losers = <<>>
        /\ EmptyIndexData => report.index_section = <<>>
        /\ \A i \in 1..Len(index_data) :
              Len(index_data[i].rows) = 0 =>
                  \A j \in 1..Len(report.index_section) :
                      report.index_section[j].name # index_data[i].name

\* C8 witness: a completed run whose only symbol fetch returned zero rows and
\* whose index fetches returned zero rows or failed.
C8_Witness ==
    /\ pc = "done"
    /\ ~stock_data.none
    /\ Len(stock_data.rows) = 0
    /\ Len(index_data) >= 2
    /\ EmptyIndexData

\* The last frame fetched for a code, among the frames that have rows.
LastFrameOf(c) ==
    LET hits == {i \in 1..Len(all_data) : all_data[i] # <<>> /\ all_data[i][1].code = c}
    IN  all_data[MaxOf(hits)]

NoZeroBaseline ==
    \A i \in 1..Len(all_data) : all_data[i] # <<>> => all_data[i][1].close # 0

\* C9: duplicate codes in the selection give one table row per code, and that
\* row is computed from the last series fetched for the code alone (stated
\* for the batches in which no series starts at a zero close).
C9_LastWriteWins ==
    (pc = "returned" /\ Analysed /\ report.equity /\ NoZeroBaseline) =>
        /\ \A i, j \in 1..Len(returns_df) :
              i # j => returns_df[i].code # returns_df[j].code
        /\ \A i \in 1..Len(returns_df) :
              returns_df[i] =
                  StockReturn(returns_df[i].code, LastFrameOf(returns_df[i].code))

Selected(i) == \E j \in 1..Len(top_stocks) : top_stocks[j].idx = i

Caps(frame) == [i \in 1..Len(frame) |-> frame[i].cap]

\* C10: get_sample_stocks fetches the min(n, len(listing)) rows of largest
\* market cap, in descending market-cap order, and no other row; for caps
\* [500, 100, 900] and n = 2 these are the rows of cap 900 and 500.
C10_TopNByMarketCap ==
    (pc \notin {"get_sample_stocks", "get_index_data"} /\ ~IndexLoopReturned) =>
        /\ Len(top_stocks) = Min(n, Len(stock_list))
        /\ \A j \in 1..Len(top_stocks) :
              /\ top_stocks[j].idx \in 1..Len(stock_list)
              /\ stock_list[top_stocks[j].idx] = top_stocks[j]
        /\ \A j, k \in 1..Len(top_stocks) :
              j < k => /\ top_stocks[j].idx # top_stocks[k].idx
                       /\ top_stocks[j].cap >= top_stocks[k].cap
        /\ \A i \in 1..Len(stock_list) : \A j \in 1..Len(top_stocks) :
              ~Selected(i) => stock_list[i].cap <= top_stocks[j].cap
        /\ (Caps(stock_list) = << 500, 100, 900 >> /\ n = 2) =>
              Caps(top_stocks) = << 900, 500 >>
        /\ StockLoopReturned =>
              StockAttempts = [j \in 1..Len(top_stocks) |->
                                  [kind |-> "stock", code |-> top_stocks[j].code]]

\* C10 witness: caps [500, 100, 900] and n = 2, both selected rows fetched.
C10_Witness ==
    /\ StockLoopReturned
    /\ Caps(stock_list) = << 500, 100, 900 >>
    /\ n = 2
    /\ Caps(top_stocks) = << 900, 500 >>
    /\ Len(StockAttempts) = 2

====
